---- MODULE Spec2Model ----
(***************************************************************************)
(* Session / authentication layer and in-memory object caches of the web   *)
(* variant (src/webapp/app.py): login throttling per client IP, session    *)
(* tokens, and the video object cache used by /api/extend-video.           *)
(*                                                                         *)
(* Time is the value time.time() returns, in whole seconds.  Every route   *)
(* handler is an "async def" coroutine run by the single uvicorn event     *)
(* loop (app.py:1346-1355); a handler gives the loop up only at an await.  *)
(***************************************************************************)
EXTENDS Integers, Sequences, FiniteSets, TLC

\* ---------------------------------------------------------------- constants
BLOCK_DURATION == 300
MAX_FAILED_ATTEMPTS == 3
ATTEMPT_WINDOW == 60
LOGIN_ID == "admin"
LOGIN_PASSWORD == "admin"
\* max_age of the session_token cookie, in seconds (24 hours).
max_age == 86400

\* ------------------------------------------------------------------- bounds
\* Requests arrive at the instants 0..EarlyTicks and at the later instants
\* below: inside the block, one second past the attempt window, and one
\* second before and after BLOCK_DURATION + 1.
EarlyTicks == 2
\* Session tokens secrets.token_urlsafe(32) hands out in one behaviour.
MaxTokens == 2
\* Videos the remote service generates in one behaviour.
MaxVideos == 3
\* Requests to the video routes that can be in flight together.
MaxHandlers == 2
\* Longest X-Forwarded-For header value.
MaxLen == 3
\* Chat sessions the image routes create in one behaviour.
MaxChats == 3

Instants ==
    (0..EarlyTicks) \cup {10, ATTEMPT_WINDOW + 1}
        \cup {BLOCK_DURATION + 1, BLOCK_DURATION + 2}

\* The instants of the requests of two clients: the start, and one after
\* every block set at the start has expired.
CoarseInstants == {0, BLOCK_DURATION + 2}
\* An instant more than max_age after every instant above.
LateInstants == {BLOCK_DURATION + 2 + max_age + 1}

\* Header values are strings of at most MaxLen of these characters.
Chars == {"1", "2", ",", " "}
RECURSIVE StringsOfLen(_)
StringsOfLen(n) ==
    IF n = 0 THEN {<<>>}
    ELSE {Append(s, c) : s \in StringsOfLen(n - 1), c \in Chars}
Strings == UNION {StringsOfLen(n) : n \in 0..MaxLen}

\* Client addresses get_client_ip can return.
IPs == {"10.0.0.5"}
\* Two client addresses, for what one client's requests do to the other's.
TwoIPs == {"10.0.0.5", "10.0.0.6"}
\* Values of the login_id and login_password form fields.
LoginIds == {"admin", "guest"}
LoginPasswords == {"admin", "hunter2"}
\* Values of the session_token cookie: 0 is an absent or empty cookie, the
\* others are token strings (those not in active_sessions are unknown ones).
Cookies == 0..MaxTokens
\* Values of the video_uuid form field (those not in the cache are unknown).
VideoUuids == 1..MaxVideos
\* Values of the session_id form field: 0 is an absent or empty one, the
\* others are id strings (those not in image_chat_sessions are unknown ones).
SessionIds == 0..MaxChats
\* The coroutines of the video routes; 0 stands for no coroutine.
Handlers == 1..MaxHandlers

VARIABLES
    now,                    \* time.time()
    failed_login_attempts,  \* ip -> sequence of failure timestamps
    blocked_ips,            \* ip -> block_until timestamp
    active_sessions,        \* session_token -> [ip, created_at]
    tokens_minted,          \* how many tokens token_urlsafe has produced
    video_objects_cache,    \* uuid -> generated_video object
    uuids_minted,           \* how many uuids uuid.uuid4() has produced
    videos_generated,       \* how many videos the remote service has returned
    handlers,               \* the video coroutines: route, position, locals
    loop,                   \* the coroutine the event loop is running, or 0
    resp,                   \* the last request and the response it got
    scenario,               \* how far the logins of ScenarioClient have followed
                            \* the scenario of ScenarioStep (-1: departed from it)
    logins,                 \* the login_submit coroutines: position and locals
    request,                \* the headers and peer of the last request whose
                            \* address was taken
    client_ip,              \* what get_client_ip returned for it
    image_chat_sessions,    \* session_id -> the chat object stored under it
    session_ids_minted,     \* how many session ids uuid.uuid4() has produced
    invalid_log             \* ip -> times of the wrong logins answered "invalid"
                            \* since the last success or block of ip, those of
                            \* the newest one's window

authVars == <<failed_login_attempts, blocked_ips, active_sessions, tokens_minted>>
videoVars == <<video_objects_cache, uuids_minted, videos_generated, handlers, loop>>
raceVars == <<logins, invalid_log>>
ipVars == <<request, client_ip>>
imageVars == <<image_chat_sessions, session_ids_minted>>
vars == <<now, failed_login_attempts, blocked_ips, active_sessions, tokens_minted,
          video_objects_cache, uuids_minted, videos_generated, handlers, loop,
          resp, scenario, raceVars, ipVars, imageVars>>

\* ------------------------------------------------------- python dictionaries
EmptyDict == [k \in {} |-> 0]
DictSet(d, k, v) == [x \in (DOMAIN d) \cup {k} |-> IF x = k THEN v ELSE d[x]]
DictDel(d, k) == [x \in (DOMAIN d) \ {k} |-> d[x]]
\* d.get(k, default)
DictGet(d, k, default) == IF k \in DOMAIN d THEN d[k] ELSE default

\* ------------------------------------------------------------ get_client_ip
\* A header, or request.client: absent (None), or present with a value.
Absent == [present |-> FALSE, value |-> <<>>]
Present(v) == [present |-> TRUE, value |-> v]
\* "if forwarded:", "if real_ip:" -- neither None nor the empty string.
Truthy(h) == h.present /\ h.value # <<>>

\* s.split(",")[0]
SplitFirst(s) ==
    LET commas == {i \in 1..Len(s) : s[i] = ","}
    IN  IF commas = {} THEN s
        ELSE SubSeq(s, 1, (CHOOSE i \in commas : \A j \in commas : i <= j) - 1)

\* Nothing is stripped.
Strip_nothing(s) == s

\* s.strip()
Strip(s) ==
    LET inked == {i \in 1..Len(s) : s[i] # " "}
    IN  IF inked = {} THEN <<>>
        ELSE SubSeq(s, CHOOSE i \in inked : \A j \in inked : i <= j,
                       CHOOSE i \in inked : \A j \in inked : i >= j)

\* The string "unknown".
Unknown == <<"unknown">>

NoRequest == [forwarded |-> Absent, real_ip |-> Absent, client |-> Absent]

\* X-Forwarded-For, X-Real-IP and request.client of the requests considered.
Requests ==
    [forwarded : {Absent} \cup {Present(v) : v \in Strings},
     real_ip : {Absent, Present(<<>>), Present(<<"2", " ">>)},
     client : {Absent, Present(<<"1", "2">>)}]

get_client_ip(req) ==
    IF Truthy(req.forwarded) THEN Strip(SplitFirst(req.forwarded.value))
    ELSE IF Truthy(req.real_ip) THEN req.real_ip.value
    ELSE IF req.client.present THEN req.client.value
    ELSE Unknown

\* ------------------------------------------------------------ is_ip_blocked
\* The comparison turned round.
BlockActive_reversed(until, t) == t > until
\* The comparison made inclusive.
BlockActive_inclusive(until, t) == t <= until

\* time.time() < blocked_ips[ip]
BlockActive(until, t) == t < until

\* A lookup that restarts a block it finds active.
is_ip_blocked_restarting(blocked, ip, t) ==
    IF ip \in DOMAIN blocked
    THEN IF BlockActive(blocked[ip], t)
         THEN [ret |-> TRUE, blocked |-> DictSet(blocked, ip, t + BLOCK_DURATION)]
         ELSE [ret |-> FALSE, blocked |-> DictDel(blocked, ip)]
    ELSE [ret |-> FALSE, blocked |-> blocked]

\* A lookup that leaves an expired entry where it is.
is_ip_blocked_keeps(blocked, ip, t) ==
    [ret |-> ip \in DOMAIN blocked /\ BlockActive(blocked[ip], t),
     blocked |-> blocked]

\* Returns the boolean and the block list as the lookup leaves it.
is_ip_blocked(blocked, ip, t) ==
    IF ip \in DOMAIN blocked
    THEN IF BlockActive(blocked[ip], t)
         THEN [ret |-> TRUE, blocked |-> blocked]
         ELSE [ret |-> FALSE, blocked |-> DictDel(blocked, ip)]
    ELSE [ret |-> FALSE, blocked |-> blocked]

\* ---------------------------------------------------- record_failed_attempt
\* The subtraction turned round: nothing is ever discarded.
InWindow_never_prunes(current_time, t) == t - current_time < ATTEMPT_WINDOW

\* The window taken twice as long.
InWindow_double(current_time, t) == current_time - t < 2 * ATTEMPT_WINDOW

\* current_time - t < ATTEMPT_WINDOW
InWindow(current_time, t) == current_time - t < ATTEMPT_WINDOW

\* The block lasts the attempt window instead of the block duration.
BlockUntil_window(current_time) == current_time + ATTEMPT_WINDOW

\* current_time + BLOCK_DURATION
BlockUntil(current_time) == current_time + BLOCK_DURATION

\* One failure more than the threshold is let through.
ReachedThreshold_late(attempts) == Len(attempts) >= MAX_FAILED_ATTEMPTS + 1

\* Strictly more than the threshold.
ReachedThreshold_strict(attempts) == Len(attempts) > MAX_FAILED_ATTEMPTS

\* len(failed_login_attempts[ip]) >= MAX_FAILED_ATTEMPTS
ReachedThreshold(attempts) == Len(attempts) >= MAX_FAILED_ATTEMPTS

\* The block is set and the ledger is left as counted.
record_failed_attempt_keeps(failed, blocked, ip, current_time) ==
    LET kept == SelectSeq(DictGet(failed, ip, <<>>),
                          LAMBDA t : InWindow(current_time, t))
        attempts == Append(kept, current_time)
    IN  IF ReachedThreshold(attempts)
        THEN [ret |-> TRUE, counted |-> attempts,
              failed |-> DictSet(failed, ip, attempts),
              blocked |-> DictSet(blocked, ip, BlockUntil(current_time))]
        ELSE [ret |-> FALSE, counted |-> attempts,
              failed |-> DictSet(failed, ip, attempts),
              blocked |-> blocked]

\* Returns the boolean, the ledger and the block list as the call leaves them,
\* and the list whose len() was compared with MAX_FAILED_ATTEMPTS.
record_failed_attempt(failed, blocked, ip, current_time) ==
    LET kept == SelectSeq(DictGet(failed, ip, <<>>),
                          LAMBDA t : InWindow(current_time, t))
        attempts == Append(kept, current_time)
    IN  IF ReachedThreshold(attempts)
        THEN [ret |-> TRUE, counted |-> attempts,
              failed |-> DictSet(failed, ip, <<>>),
              blocked |-> DictSet(blocked, ip, BlockUntil(current_time))]
        ELSE [ret |-> FALSE, counted |-> attempts,
              failed |-> DictSet(failed, ip, attempts),
              blocked |-> blocked]

\* The failure being answered is left out of the count.
Remaining_before(attempts) == MAX_FAILED_ATTEMPTS - Len(attempts) + 1

\* remaining = MAX_FAILED_ATTEMPTS - len(failed_login_attempts.get(client_ip, []))
Remaining(attempts) == MAX_FAILED_ATTEMPTS - Len(attempts)

\* ----------------------------------------------------------- verify_session
\* Any non-empty cookie is accepted.
verify_session_any(sessions, session_token) == session_token # 0

\* A session older than the cookie's max_age is refused.
verify_session_expiring(sessions, session_token) ==
    IF session_token = 0 THEN FALSE
    ELSE /\ session_token \in DOMAIN sessions
         /\ now - sessions[session_token].created_at < max_age

\* A session whose address is blocked is refused.
verify_session_unblocked(sessions, session_token) ==
    IF session_token = 0 THEN FALSE
    ELSE /\ session_token \in DOMAIN sessions
         /\ LET ip == sessions[session_token].ip
            IN  ~(ip \in DOMAIN blocked_ips /\ blocked_ips[ip] > now)

\* if not session_token: return False; return session_token in active_sessions
verify_session(sessions, session_token) ==
    IF session_token = 0 THEN FALSE ELSE session_token \in DOMAIN sessions

\* Every address's ledger is dropped.
ClearOnSuccess_all(failed, ip) == EmptyDict

\* The ledger is left as it is.
ClearOnSuccess_keeps(failed, ip) == failed

\* if client_ip in failed_login_attempts: del failed_login_attempts[client_ip]
ClearOnSuccess(failed, ip) == DictDel(failed, ip)

\* Every session is ended.
SessionsAfterLogout_all(sessions, session_token) == EmptyDict

\* The refusal raised as require_auth raises it.
RootDenied_raises == [outcome |-> "unauthorized", status |-> 401]

\* read_root without a session: RedirectResponse(url="/login", status_code=302)
RootDenied == [outcome |-> "redirect_login", status |-> 302]

\* The entry is left in the store.
SessionsAfterLogout_keeps(sessions, session_token) == sessions

\* if session_token and session_token in active_sessions: del ...
SessionsAfterLogout(sessions, session_token) ==
    IF session_token # 0 /\ session_token \in DOMAIN sessions
    THEN DictDel(sessions, session_token)
    ELSE sessions

\* ---------------------------------------------------------------- exchanges
\* The last request with the response it got: the route, the client address,
\* whether the submitted pair was the configured one, the session_token cookie
\* sent, time.time() when it was handled, what the handler found stored for
\* the address on entry (ledger, block_until or 0), whether the cookie was a key
\* of active_sessions on entry, and the response (outcome,
\* status code, session_token set by Set-Cookie or 0, remaining attempts shown).
\* For the video routes: the video_uuid form field, the video_uuid of the
\* response, and the generated_video object the handler got from the service.
Exchange(op, ip, ok, cookie, outcome, status, token, remaining) ==
    [op |-> op, ip |-> ip, ok |-> ok, cookie |-> cookie, at |-> now,
     had_session |-> (cookie # 0 /\ cookie \in DOMAIN active_sessions),
     ledger_before |-> DictGet(failed_login_attempts, ip, <<>>),
     block_before |-> DictGet(blocked_ips, ip, 0),
     outcome |-> outcome, status |-> status, token |-> token,
     remaining |-> remaining, video_uuid |-> 0, new_uuid |-> 0, video |-> 0]

ApiExchange(op, video_uuid, outcome, status, new_uuid, video) ==
    [op |-> op, ip |-> "", ok |-> FALSE, cookie |-> 0, at |-> now,
     had_session |-> FALSE, ledger_before |-> <<>>, block_before |-> 0,
     outcome |-> outcome, status |-> status, token |-> 0, remaining |-> 0,
     video_uuid |-> video_uuid, new_uuid |-> new_uuid, video |-> video]

NoExchange ==
    [op |-> "none", ip |-> "", ok |-> FALSE, cookie |-> 0, at |-> 0,
     had_session |-> FALSE,
     ledger_before |-> <<>>, block_before |-> 0,
     outcome |-> "none", status |-> 0, token |-> 0, remaining |-> 0,
     video_uuid |-> 0, new_uuid |-> 0, video |-> 0]

\* The password is not compared.
CredentialsOk_id_only(id, pw) == id = LOGIN_ID

\* login_id == LOGIN_ID and login_password == LOGIN_PASSWORD
CredentialsOk(id, pw) == id = LOGIN_ID /\ pw = LOGIN_PASSWORD

\* ------------------------------------------------------------- video routes
\* A coroutine of a video route: the route, where it stands ("idle": none in
\* flight, "poll": in the while-not-done loop, "stored": extend_video between
\* storing the new object and removing the old one), and its locals.
IdleHandler ==
    [route |-> "none", pc |-> "idle", video_uuid |-> 0, previous_video |-> 0,
     generated_video |-> 0, new_uuid |-> 0]

\* Every position is an await.
Awaits_always(route, pc) == TRUE

\* Whether the coroutine gives the event loop up when it reaches pc: the video
\* routes wait with the blocking time.sleep(10) and call the synchronous
\* client, and have no await between storing and removing; the body of
\* login_submit has no await either.  image_to_image awaits file.read()
\* while it saves the uploaded files.
Awaits(route, pc) == route = "image_to_image" /\ pc = "reading"

\* except Exception as e: raise HTTPException(status_code=500, detail=str(e));
\* HTTPException is an Exception, so one raised inside the try is caught too.
CaughtStatus(raised_status) == 500

\* What the operation holds once operation.done: an error, a response without
\* videos, a video whose download or save raises, or a video.
OperationResults == {"error", "no_videos", "download_fails", "video"}

\* The object is stored before it is downloaded and saved.
CacheAfterDownload_early(cache, new_uuid, generated_video, saved) ==
    DictSet(cache, new_uuid, generated_video)

\* client.files.download(...); generated_video.video.save(...); then
\* video_objects_cache[str(uuid.uuid4())] = generated_video -- the store is
\* reached only when download and save have not raised.
CacheAfterDownload(cache, new_uuid, generated_video, saved) ==
    IF saved THEN DictSet(cache, new_uuid, generated_video) ELSE cache

\* The previous entry is left in the cache.
RemovePrevious_keeps(cache, video_uuid) == cache

\* if video_uuid in video_objects_cache: del video_objects_cache[video_uuid]
RemovePrevious(cache, video_uuid) ==
    IF video_uuid \in DOMAIN cache THEN DictDel(cache, video_uuid) ELSE cache

\* ------------------------------------------------------------- image routes
\* What the remote call of an image request comes to: it raises, or returns a
\* response whose parts is None, parts with neither image nor text, an image
\* whose save raises, text only, or an image.
ImageResponses == {"raises", "no_parts", "nothing", "save_fails", "text", "image"}

\* if not is_new and session_id and session_id in image_chat_sessions
IsContinuation(sessions, is_new, session_id) ==
    ~is_new /\ session_id # 0 /\ session_id \in DOMAIN sessions

\* The processing of the response: the answer's message and status.  The
\* HTTPException(500) of the two empty cases and the exception of a failing
\* save go through the route's except clause.
ImageAnswer(response) ==
    CASE response = "no_parts" ->
             [outcome |-> "no response data", status |-> CaughtStatus(500)]
      [] response = "nothing" ->
             [outcome |-> "no image or text", status |-> CaughtStatus(500)]
      [] response = "save_fails" ->
             [outcome |-> "save raised", status |-> CaughtStatus(0)]
      [] response = "text" -> [outcome |-> "text_only", status |-> 200]
      [] response = "image" -> [outcome |-> "success", status |-> 200]

\* The exchange of an image request: the session_id sent and the session_id
\* of the answer (0 in an error answer) stand in the two identifier fields.
ImageExchange(op, session_id, response, current_session_id) ==
    ApiExchange(op, session_id, ImageAnswer(response).outcome,
                ImageAnswer(response).status,
                IF ImageAnswer(response).status = 200
                THEN current_session_id ELSE 0, 0)

\* ------------------------------------------------- login_submit, step by step
\* A login_submit coroutine: where it stands ("idle": none in flight,
\* "checked": is_ip_blocked has returned False, "recorded":
\* record_failed_attempt has returned False), its locals client_ip and the
\* outcome of the credential comparison, time.time() of its last call, and
\* what it found stored for client_ip on entry.
IdleLogin ==
    [pc |-> "idle", client_ip |-> "", ok |-> FALSE, at |-> 0,
     ledger_before |-> <<>>, block_before |-> 0]

\* The name the event loop knows login coroutine h by.
LoginTask(h) == 0 - h

\* The times of invalid_log that are inside the window of a failure at t,
\* followed by t.
LogInvalid(log, ip, t) ==
    DictSet(log, ip,
            Append(SelectSeq(DictGet(log, ip, <<>>),
                             LAMBDA u : t - u < ATTEMPT_WINDOW), t))

\* ----------------------------------------------------------------- scenario
\* The login scenario: wrong credentials from ScenarioClient at t = 0, 1, 2, any
\* login at t = 10, then the correct pair at t = BLOCK_DURATION + 1 (step 5)
\* and/or at t = BLOCK_DURATION + 2 (step 6).  Any other login from
\* ScenarioClient leaves the scenario (-1).
ScenarioClient == "10.0.0.5"

ScenarioStep(step, ip, t, ok) ==
    IF ip # ScenarioClient THEN step
    ELSE IF step \in 0..2 /\ t = step /\ ~ok THEN step + 1
    ELSE IF step = 3 /\ t = 10 THEN 4
    ELSE IF step = 4 /\ t = BLOCK_DURATION + 1 /\ ok THEN 5
    ELSE IF step \in {4, 5} /\ t = BLOCK_DURATION + 2 /\ ok THEN 6
    ELSE -1

Init ==
    /\ now = 0
    /\ failed_login_attempts = EmptyDict
    /\ blocked_ips = EmptyDict
    /\ active_sessions = EmptyDict
    /\ tokens_minted = 0
    /\ video_objects_cache = EmptyDict
    /\ uuids_minted = 0
    /\ videos_generated = 0
    /\ handlers = [h \in Handlers |-> IdleHandler]
    /\ loop = 0
    /\ resp = NoExchange
    /\ scenario = 0
    /\ logins = [h \in Handlers |-> IdleLogin]
    /\ invalid_log = EmptyDict
    /\ request = NoRequest
    /\ image_chat_sessions = EmptyDict
    /\ session_ids_minted = 0
    /\ client_ip = <<>>

\* The clock moves on to a later instant.
Tick ==
    /\ \E t \in Instants : t > now /\ now' = t
    /\ UNCHANGED <<authVars, videoVars, resp, scenario, raceVars, ipVars, imageVars>>

\* The clock moves on past the expiry of the blocks set so far.
TickCoarse ==
    /\ \E t \in CoarseInstants : t > now /\ now' = t
    /\ UNCHANGED <<authVars, videoVars, resp, scenario, raceVars, ipVars, imageVars>>

\* The clock moves on by more than the cookie's max_age.
TickLate ==
    /\ \E t \in LateInstants : t > now /\ now' = t
    /\ UNCHANGED <<authVars, videoVars, resp, scenario, raceVars, ipVars, imageVars>>

\* client_ip = get_client_ip(request), as login_page and login_submit call it.
GetClientIp(req) ==
    /\ request' = req
    /\ client_ip' = get_client_ip(req)
    /\ UNCHANGED <<now, authVars, videoVars, resp, scenario, raceVars, imageVars>>

\* POST /login
LoginSubmit(ip, id, pw) ==
    LET chk == is_ip_blocked(blocked_ips, ip, now)
        ok == CredentialsOk(id, pw)
    IN  /\ loop = 0
        /\ scenario' = ScenarioStep(scenario, ip, now, ok)
        /\ UNCHANGED <<now, videoVars, raceVars, ipVars, imageVars>>
        /\ IF chk.ret
           THEN /\ blocked_ips' = chk.blocked
                /\ resp' = Exchange("login", ip, ok, 0, "blocked", 302, 0, 0)
                /\ UNCHANGED <<failed_login_attempts, active_sessions, tokens_minted>>
           ELSE IF ok
           THEN /\ tokens_minted < MaxTokens
                /\ LET session_token == tokens_minted + 1
                   IN  /\ tokens_minted' = session_token
                       /\ active_sessions' =
                              DictSet(active_sessions, session_token,
                                      [ip |-> ip, created_at |-> now])
                       /\ resp' = Exchange("login", ip, ok, 0, "success", 302,
                                           session_token, 0)
                /\ failed_login_attempts' = ClearOnSuccess(failed_login_attempts, ip)
                /\ blocked_ips' = chk.blocked
           ELSE LET rec == record_failed_attempt(failed_login_attempts,
                                                 chk.blocked, ip, now)
                IN  /\ failed_login_attempts' = rec.failed
                    /\ blocked_ips' = rec.blocked
                    /\ resp' =
                           IF rec.ret
                           THEN Exchange("login", ip, ok, 0, "blocked", 302, 0, 0)
                           ELSE Exchange("login", ip, ok, 0, "invalid", 200, 0,
                                         Remaining(DictGet(rec.failed, ip, <<>>)))
                    /\ UNCHANGED <<active_sessions, tokens_minted>>

\* GET /login
LoginPage(ip, cookie) ==
    /\ loop = 0
    /\ UNCHANGED <<now, failed_login_attempts, active_sessions, tokens_minted,
                   videoVars, scenario, raceVars, ipVars, imageVars>>
    /\ IF verify_session(active_sessions, cookie)
       THEN /\ resp' = Exchange("login_page", ip, FALSE, cookie, "redirect_root",
                                302, 0, 0)
            /\ UNCHANGED blocked_ips
       ELSE LET chk == is_ip_blocked(blocked_ips, ip, now)
            IN  /\ blocked_ips' = chk.blocked
                /\ resp' = Exchange("login_page", ip, FALSE, cookie,
                                    IF chk.ret THEN "banner" ELSE "form", 200, 0, 0)

\* GET /logout
Logout(cookie) ==
    /\ loop = 0
    /\ active_sessions' = SessionsAfterLogout(active_sessions, cookie)
    /\ resp' = Exchange("logout", "", FALSE, cookie, "redirect_login", 302, 0, 0)
    /\ UNCHANGED <<now, failed_login_attempts, blocked_ips, tokens_minted,
                   videoVars, scenario, raceVars, ipVars, imageVars>>

\* GET /
ReadRoot(cookie) ==
    /\ loop = 0
    /\ resp' = IF ~verify_session(active_sessions, cookie)
               THEN Exchange("root", "", FALSE, cookie, RootDenied.outcome,
                             RootDenied.status, 0, 0)
               ELSE Exchange("root", "", FALSE, cookie, "index", 200, 0, 0)
    /\ UNCHANGED <<now, authVars, videoVars, scenario, raceVars, ipVars, imageVars>>

\* The event loop after login coroutine h has run a step that leaves it at pc.
LoginLoopAfter(h, pc) ==
    IF pc = "idle" \/ Awaits("login_submit", pc) THEN 0 ELSE LoginTask(h)

\* The response of login coroutine h, with what it found on entry.
LoginExchange(h, outcome, status, token, remaining) ==
    [Exchange("login", logins[h].client_ip, logins[h].ok, 0, outcome, status,
              token, remaining)
        EXCEPT !.ledger_before = logins[h].ledger_before,
               !.block_before = logins[h].block_before]

\* POST /login, lines 428-432: the address is taken and the block list looked up.
LoginBegin(h, ip, id, pw) ==
    LET chk == is_ip_blocked(blocked_ips, ip, now)
        ok == CredentialsOk(id, pw)
        me == [IdleLogin EXCEPT
                  !.client_ip = ip, !.ok = ok, !.at = now,
                  !.ledger_before = DictGet(failed_login_attempts, ip, <<>>),
                  !.block_before = DictGet(blocked_ips, ip, 0)]
    IN  /\ loop = 0
        /\ logins[h].pc = "idle"
        /\ ok => tokens_minted < MaxTokens
        /\ blocked_ips' = chk.blocked
        /\ UNCHANGED <<now, failed_login_attempts, active_sessions, tokens_minted,
                       video_objects_cache, uuids_minted, videos_generated,
                       handlers, scenario, invalid_log, ipVars, imageVars>>
        /\ IF chk.ret
           THEN /\ logins' = logins
                /\ loop' = 0
                /\ resp' = Exchange("login", ip, ok, 0, "blocked", 302, 0, 0)
           ELSE /\ logins' = [logins EXCEPT ![h] = [me EXCEPT !.pc = "checked"]]
                /\ loop' = LoginLoopAfter(h, "checked")
                /\ UNCHANGED resp

\* POST /login, lines 434-463: the credentials are compared; the configured
\* pair gets a session, any other is recorded as a failure.
LoginDecide(h) ==
    LET me == logins[h]
        ip == me.client_ip
    IN  /\ loop = LoginTask(h) \/ loop = 0
        /\ me.pc = "checked"
        /\ UNCHANGED <<now, video_objects_cache, uuids_minted, videos_generated,
                       handlers, scenario, ipVars, imageVars>>
        /\ IF me.ok
           THEN /\ tokens_minted < MaxTokens
                /\ LET session_token == tokens_minted + 1
                   IN  /\ tokens_minted' = session_token
                       /\ active_sessions' =
                              DictSet(active_sessions, session_token,
                                      [ip |-> ip, created_at |-> now])
                       /\ resp' = LoginExchange(h, "success", 302, session_token, 0)
                /\ failed_login_attempts' = ClearOnSuccess(failed_login_attempts, ip)
                /\ invalid_log' = DictDel(invalid_log, ip)
                /\ logins' = [logins EXCEPT ![h] = IdleLogin]
                /\ loop' = 0
                /\ UNCHANGED blocked_ips
           ELSE LET rec == record_failed_attempt(failed_login_attempts,
                                                 blocked_ips, ip, now)
                IN  /\ failed_login_attempts' = rec.failed
                    /\ blocked_ips' = rec.blocked
                    /\ UNCHANGED <<active_sessions, tokens_minted>>
                    /\ IF rec.ret
                       THEN /\ resp' = LoginExchange(h, "blocked", 302, 0, 0)
                            /\ invalid_log' = DictDel(invalid_log, ip)
                            /\ logins' = [logins EXCEPT ![h] = IdleLogin]
                            /\ loop' = 0
                       ELSE /\ logins' = [logins EXCEPT ![h] =
                                   [me EXCEPT !.pc = "recorded", !.at = now]]
                            /\ loop' = LoginLoopAfter(h, "recorded")
                            /\ UNCHANGED <<resp, invalid_log>>

\* POST /login, lines 464-537: the remaining attempts are computed and the
\* form returned.
LoginAnswer(h) ==
    LET me == logins[h]
        ip == me.client_ip
    IN  /\ loop = LoginTask(h) \/ loop = 0
        /\ me.pc = "recorded"
        /\ resp' = [LoginExchange(h, "invalid", 200, 0,
                                  Remaining(DictGet(failed_login_attempts, ip, <<>>)))
                       EXCEPT !.at = me.at]
        /\ invalid_log' = LogInvalid(invalid_log, ip, me.at)
        /\ logins' = [logins EXCEPT ![h] = IdleLogin]
        /\ loop' = 0
        /\ UNCHANGED <<now, authVars, video_objects_cache, uuids_minted,
                       videos_generated, handlers, scenario, ipVars, imageVars>>

\* The event loop is given up after every step.
LoopAfter_free(h, route, pc) == 0

\* The event loop after coroutine h has run a step that leaves it at pc.
LoopAfter(h, route, pc) == IF pc = "idle" \/ Awaits(route, pc) THEN 0 ELSE h

\* Coroutine h may run: the loop is running it, or is free.
MayRun(h) == loop = h \/ loop = 0

\* A step of coroutine h that ends the request with an exception caught by the
\* route's except clause.
Fails(h, op, video_uuid, detail, raised_status) ==
    /\ handlers' = [handlers EXCEPT ![h] = IdleHandler]
    /\ loop' = 0
    /\ resp' = ApiExchange(op, video_uuid, detail, CaughtStatus(raised_status), 0, 0)

\* An image request that goes on with the chat stored under session_id:
\* chat.send_message, then the processing of the response.
ContinueChat(op, session_id, response) ==
    /\ UNCHANGED imageVars
    /\ resp' = IF response = "raises"
               THEN ApiExchange(op, session_id, "send_message raised",
                                CaughtStatus(0), 0, 0)
               ELSE ImageExchange(op, session_id, response, session_id)

\* An image request that starts a chat: generate_content, a new session id,
\* client.chats.create, the store, then the processing of the response.
StartChat(op, session_id, response, create_raises) ==
    IF response = "raises" \/ create_raises
    THEN /\ UNCHANGED imageVars
         /\ resp' = ApiExchange(op, session_id,
                                IF response = "raises"
                                THEN "generate_content raised"
                                ELSE "chats.create raised",
                                CaughtStatus(0), 0, 0)
    ELSE LET current_session_id == session_ids_minted + 1
         IN  /\ session_ids_minted < MaxChats
             /\ session_ids_minted' = current_session_id
             /\ image_chat_sessions' =
                    DictSet(image_chat_sessions, current_session_id,
                            current_session_id)
             /\ resp' = ImageExchange(op, session_id, response,
                                      current_session_id)

\* POST /api/text-to-image
TextToImage(is_new, session_id, response, create_raises) ==
    /\ loop = 0
    /\ UNCHANGED <<now, authVars, videoVars, scenario, raceVars, ipVars>>
    /\ IF IsContinuation(image_chat_sessions, is_new, session_id)
       THEN ContinueChat("text_to_image", session_id, response)
       ELSE StartChat("text_to_image", session_id, response, create_raises)

\* POST /api/image-to-image, up to the first await file.read().
ImageToImageBegin(h, is_new, session_id, files, response) ==
    /\ loop = 0
    /\ handlers[h].pc = "idle"
    /\ UNCHANGED <<now, authVars, scenario, raceVars, ipVars,
                   video_objects_cache, uuids_minted, videos_generated>>
    /\ IF IsContinuation(image_chat_sessions, is_new, session_id)
       THEN /\ ContinueChat("image_to_image", session_id, response)
            /\ UNCHANGED <<handlers, loop>>
       ELSE /\ UNCHANGED imageVars
            /\ IF ~files
               THEN Fails(h, "image_to_image", session_id, "files required", 400)
               ELSE /\ handlers' = [handlers EXCEPT ![h] =
                            [IdleHandler EXCEPT !.route = "image_to_image",
                                                !.pc = "reading",
                                                !.video_uuid = session_id]]
                    /\ loop' = LoopAfter(h, "image_to_image", "reading")
                    /\ UNCHANGED resp

\* POST /api/image-to-image, from the files read to the answer.
ImageToImageFinish(h, response, create_raises) ==
    /\ MayRun(h)
    /\ handlers[h].pc = "reading"
    /\ handlers' = [handlers EXCEPT ![h] = IdleHandler]
    /\ loop' = 0
    /\ UNCHANGED <<now, authVars, scenario, raceVars, ipVars,
                   video_objects_cache, uuids_minted, videos_generated>>
    /\ StartChat("image_to_image", handlers[h].video_uuid, response, create_raises)

\* POST /api/text-to-video, up to the start of the remote operation.
TextToVideoBegin(h, raises) ==
    /\ loop = 0
    /\ handlers[h].pc = "idle"
    /\ UNCHANGED <<now, authVars, scenario, raceVars, ipVars, imageVars,
                   video_objects_cache, uuids_minted,
                   videos_generated>>
    /\ IF raises
       THEN Fails(h, "text_to_video", 0, "generate_videos raised", 0)
       ELSE /\ handlers' = [handlers EXCEPT ![h] =
                    [IdleHandler EXCEPT !.route = "text_to_video", !.pc = "poll"]]
            /\ loop' = LoopAfter(h, "text_to_video", "poll")
            /\ UNCHANGED resp

\* POST /api/extend-video, up to the start of the remote operation.
ExtendVideoBegin(h, video_uuid, raises) ==
    /\ loop = 0
    /\ handlers[h].pc = "idle"
    /\ UNCHANGED <<now, authVars, scenario, raceVars, ipVars, imageVars,
                   video_objects_cache, uuids_minted,
                   videos_generated>>
    /\ IF video_uuid \notin DOMAIN video_objects_cache
       THEN Fails(h, "extend_video", video_uuid, "video not found", 400)
       ELSE IF raises
       THEN Fails(h, "extend_video", video_uuid, "generate_videos raised", 0)
       ELSE /\ handlers' = [handlers EXCEPT ![h] =
                    [IdleHandler EXCEPT
                        !.route = "extend_video", !.pc = "poll",
                        !.video_uuid = video_uuid,
                        !.previous_video = video_objects_cache[video_uuid]]]
            /\ loop' = LoopAfter(h, "extend_video", "poll")
            /\ UNCHANGED resp

\* One round of "while not operation.done": time.sleep(10), then
\* client.operations.get(operation).
Poll(h, raises) ==
    /\ MayRun(h)
    /\ handlers[h].pc = "poll"
    /\ \E t \in Instants : t >= now + 10 /\ now' = t
    /\ UNCHANGED <<authVars, scenario, raceVars, ipVars, imageVars,
                   video_objects_cache, uuids_minted,
                   videos_generated>>
    /\ IF raises
       THEN /\ handlers' = [handlers EXCEPT ![h] = IdleHandler]
            /\ loop' = 0
            /\ resp' = [ApiExchange(handlers[h].route, handlers[h].video_uuid,
                                    "operations.get raised", CaughtStatus(0), 0, 0)
                           EXCEPT !.at = now']
       ELSE /\ loop' = LoopAfter(h, handlers[h].route, "poll")
            /\ UNCHANGED <<handlers, resp>>

\* operation.done: the result is examined, the video downloaded and stored.
\* text_to_video returns here; extend_video goes on to remove the old entry.
Finish(h, result) ==
    LET me == handlers[h]
        generated_video == videos_generated + 1
        new_uuid == uuids_minted + 1
    IN  /\ MayRun(h)
        /\ me.pc = "poll"
        /\ UNCHANGED <<now, authVars, scenario, raceVars, ipVars, imageVars>>
        /\ CASE result = "error" ->
                   /\ Fails(h, me.route, me.video_uuid, "operation error", 500)
                   /\ UNCHANGED <<video_objects_cache, uuids_minted, videos_generated>>
             [] result = "no_videos" ->
                   /\ Fails(h, me.route, me.video_uuid, "no videos generated", 500)
                   /\ UNCHANGED <<video_objects_cache, uuids_minted, videos_generated>>
             [] result = "download_fails" ->
                   /\ videos_generated < MaxVideos
                   /\ videos_generated' = generated_video
                   /\ Fails(h, me.route, me.video_uuid, "download raised", 0)
                   /\ video_objects_cache' =
                          CacheAfterDownload(video_objects_cache, new_uuid,
                                             generated_video, FALSE)
                   /\ UNCHANGED uuids_minted
             [] result = "video" ->
                   /\ videos_generated < MaxVideos
                   /\ videos_generated' = generated_video
                   /\ uuids_minted' = new_uuid
                   /\ video_objects_cache' =
                          CacheAfterDownload(video_objects_cache, new_uuid,
                                             generated_video, TRUE)
                   /\ IF me.route = "text_to_video"
                      THEN /\ handlers' = [handlers EXCEPT ![h] = IdleHandler]
                           /\ loop' = 0
                           /\ resp' = ApiExchange("text_to_video", 0, "success", 200,
                                                  new_uuid, generated_video)
                      ELSE /\ handlers' = [handlers EXCEPT ![h] =
                                   [me EXCEPT !.pc = "stored",
                                              !.generated_video = generated_video,
                                              !.new_uuid = new_uuid]]
                           /\ loop' = LoopAfter(h, me.route, "stored")
                           /\ UNCHANGED resp

\* extend_video: the previous uuid is removed and the response returned.
ExtendVideoReturn(h) ==
    LET me == handlers[h]
    IN  /\ MayRun(h)
        /\ me.pc = "stored"
        /\ video_objects_cache' = RemovePrevious(video_objects_cache, me.video_uuid)
        /\ handlers' = [handlers EXCEPT ![h] = IdleHandler]
        /\ loop' = 0
        /\ resp' = ApiExchange("extend_video", me.video_uuid, "success", 200,
                               me.new_uuid, me.generated_video)
        /\ UNCHANGED <<now, authVars, scenario, raceVars, ipVars, imageVars, uuids_minted,
                   videos_generated>>

Next ==
    \/ Tick
    \/ \E ip \in IPs, id \in LoginIds, pw \in LoginPasswords : LoginSubmit(ip, id, pw)
    \/ \E ip \in IPs, cookie \in Cookies : LoginPage(ip, cookie)
    \/ \E cookie \in Cookies : Logout(cookie)
    \/ \E cookie \in Cookies : ReadRoot(cookie)

Spec == Init /\ [][Next]_vars

\* The login routes over more than a day.
NextLate ==
    \/ Next
    \/ TickLate

SpecLate == Init /\ [][NextLate]_vars

\* POST /login requests handled concurrently, each coroutine step by step.
NextLogin ==
    \/ Tick
    \/ \E h \in Handlers, ip \in IPs, id \in LoginIds, pw \in LoginPasswords :
           LoginBegin(h, ip, id, pw)
    \/ \E h \in Handlers : LoginDecide(h)
    \/ \E h \in Handlers : LoginAnswer(h)

SpecLogin == Init /\ [][NextLogin]_vars

\* The address taken from the requests.
NextClientIp == \E req \in Requests : GetClientIp(req)

SpecClientIp == Init /\ [][NextClientIp]_vars

\* A video request next to the requests of the login gate.
NextJoint ==
    \/ Tick
    \/ \E ip \in IPs, id \in LoginIds, pw \in LoginPasswords : LoginSubmit(ip, id, pw)
    \/ \E cookie \in Cookies : Logout(cookie)
    \/ \E cookie \in Cookies : ReadRoot(cookie)
    \/ \E h \in Handlers : TextToVideoBegin(h, FALSE)
    \/ \E h \in Handlers : Poll(h, FALSE)
    \/ \E h \in Handlers : Finish(h, "no_videos")

SpecJoint == Init /\ [][NextJoint]_vars

\* The login routes with two client addresses.
NextTwo ==
    \/ TickCoarse
    \/ \E ip \in TwoIPs, id \in LoginIds, pw \in LoginPasswords : LoginSubmit(ip, id, pw)
    \/ \E ip \in TwoIPs, cookie \in Cookies : LoginPage(ip, cookie)
    \/ \E cookie \in Cookies : ReadRoot(cookie)

SpecTwo == Init /\ [][NextTwo]_vars

\* The image routes.
NextImage ==
    \/ \E is_new \in BOOLEAN, session_id \in SessionIds,
          response \in ImageResponses, create_raises \in BOOLEAN :
           TextToImage(is_new, session_id, response, create_raises)
    \/ \E h \in Handlers, is_new \in BOOLEAN, session_id \in SessionIds,
          files \in BOOLEAN, response \in ImageResponses :
           ImageToImageBegin(h, is_new, session_id, files, response)
    \/ \E h \in Handlers, response \in ImageResponses, create_raises \in BOOLEAN :
           ImageToImageFinish(h, response, create_raises)

SpecImage == Init /\ [][NextImage]_vars

\* The video routes.  They read and write none of the variables of the login
\* routes, and the login routes none of theirs.
NextVideo ==
    \/ Tick
    \/ \E h \in Handlers, raises \in BOOLEAN : TextToVideoBegin(h, raises)
    \/ \E h \in Handlers, video_uuid \in VideoUuids, raises \in BOOLEAN :
           ExtendVideoBegin(h, video_uuid, raises)
    \/ \E h \in Handlers, raises \in BOOLEAN : Poll(h, raises)
    \/ \E h \in Handlers, result \in OperationResults : Finish(h, result)
    \/ \E h \in Handlers : ExtendVideoReturn(h)

SpecVideo == Init /\ [][NextVideo]_vars

\* ===================================================================== claims
\* What the last exchange found on entry.
BlockedOnEntry(r) == r.block_before # 0 /\ r.at < r.block_before
NotBlockedOnEntry(r) == r.block_before = 0 \/ r.at >= r.block_before
InWindowBefore(r) ==
    Cardinality({i \in 1..Len(r.ledger_before) :
                    r.at - r.ledger_before[i] < ATTEMPT_WINDOW})
WrongLogin(r) == r.op = "login" /\ ~r.ok
\* The block entry of ip is present and has not expired.
Blocked(ip) == ip \in DOMAIN blocked_ips /\ blocked_ips[ip] > now

\* C1: a wrong login at time T that is the third failure within ATTEMPT_WINDOW
\* is answered "blocked" and leaves a block entry T + BLOCK_DURATION, so that
\* the lookup says blocked at every t in [T, T + BLOCK_DURATION) and not
\* blocked from T + BLOCK_DURATION on; a login or login page request that
\* finds the block active leaves its expiry as it is.
C1_BlockLastsBlockDuration ==
    /\ (WrongLogin(resp) /\ NotBlockedOnEntry(resp)
            /\ InWindowBefore(resp) = MAX_FAILED_ATTEMPTS - 1)
        => /\ resp.outcome = "blocked"
           /\ resp.ip \in DOMAIN blocked_ips
           /\ blocked_ips[resp.ip] = resp.at + BLOCK_DURATION
           /\ \A t \in resp.at..(resp.at + BLOCK_DURATION + ATTEMPT_WINDOW) :
                  is_ip_blocked(blocked_ips, resp.ip, t).ret
                      <=> t < resp.at + BLOCK_DURATION
    /\ (resp.op \in {"login", "login_page"} /\ BlockedOnEntry(resp))
        => /\ resp.ip \in DOMAIN blocked_ips
           /\ blocked_ips[resp.ip] = resp.block_before

\* The third failure in the window has been answered and the clock stands one
\* second before the block's expiry.
C1_Witness ==
    /\ WrongLogin(resp) /\ NotBlockedOnEntry(resp)
    /\ InWindowBefore(resp) = MAX_FAILED_ATTEMPTS - 1
    /\ resp.outcome = "blocked"
    /\ now = resp.at + BLOCK_DURATION - 1

\* The last exchange is the login that took the scenario to step k.
ScenarioAt(k) ==
    scenario = k /\ resp.op = "login" /\ resp.ip = ScenarioClient

\* C2 as stated: wrong credentials at t = 0, 1, 2, the third answered
\* "blocked"; a login at t = 10 rejected as blocked; the correct pair at
\* t = 301 succeeds with a fresh session token.
C2_ScenarioAsStated ==
    /\ ScenarioAt(3) => resp.outcome = "blocked"
    /\ ScenarioAt(4) => resp.outcome = "blocked"
    /\ ScenarioAt(5) => /\ resp.outcome = "success"
                        /\ resp.token # 0
                        /\ resp.token \in DOMAIN active_sessions

\* C2 amended: as above, but the correct pair at t = 301 is still rejected as
\* blocked (the block set at t = 2 expires at 302); at t = 302 it succeeds and
\* gets a session token that was in no earlier response.
C2_ScenarioAmended ==
    /\ ScenarioAt(3) => resp.outcome = "blocked"
    /\ ScenarioAt(4) => resp.outcome = "blocked"
    /\ ScenarioAt(5) => resp.outcome = "blocked" /\ resp.token = 0
    /\ ScenarioAt(6) => /\ resp.outcome = "success"
                        /\ resp.token # 0
                        /\ resp.token \in DOMAIN active_sessions
                        /\ active_sessions[resp.token].created_at = resp.at

\* The scenario has run to its end: the login at t = 302 after a rejected one
\* at t = 301.
C2_Witness ==
    /\ ScenarioAt(6)
    /\ resp.at = BLOCK_DURATION + 2
    /\ resp.outcome = "success"

\* C3: a POST /login from an address whose block entry has not expired is
\* answered "blocked" whatever the credentials, sets no session cookie and
\* leaves the session store as it was.
C3_BlockedLoginRejected ==
    [][\A ip \in IPs, id \in LoginIds, pw \in LoginPasswords :
          (Blocked(ip) /\ LoginSubmit(ip, id, pw))
              => /\ resp'.outcome = "blocked"
                 /\ resp'.token = 0
                 /\ active_sessions' = active_sessions
                 /\ tokens_minted' = tokens_minted]_vars

\* The configured pair was submitted from a blocked address and rejected.
C3_Witness ==
    /\ resp.op = "login" /\ resp.ok
    /\ BlockedOnEntry(resp)
    /\ resp.outcome = "blocked"

\* C4: a login attempt rejected because the address is blocked changes neither
\* the failure ledger, nor the block list, nor the session store, nor the
\* video object cache.
C4_BlockedLoginChangesNothing ==
    [][\A ip \in IPs, id \in LoginIds, pw \in LoginPasswords :
          (Blocked(ip) /\ LoginSubmit(ip, id, pw))
              => UNCHANGED <<failed_login_attempts, blocked_ips, active_sessions,
                             tokens_minted, video_objects_cache>>]_vars

\* A wrong pair was rejected as blocked some time after the block was set.
C4_Witness ==
    /\ WrongLogin(resp)
    /\ BlockedOnEntry(resp)
    /\ resp.outcome = "blocked"
    /\ resp.block_before < resp.at + BLOCK_DURATION

\* C5: right after a successful login the ledger has no entry for the address,
\* whatever it held before, and a failure recorded next is the first of its
\* window.
C5_SuccessClearsLedger ==
    (resp.op = "login" /\ resp.outcome = "success")
        => /\ resp.ip \notin DOMAIN failed_login_attempts
           /\ \A t \in {i \in Instants : i >= now} :
                  LET rec == record_failed_attempt(failed_login_attempts,
                                                   blocked_ips, resp.ip, t)
                  IN  ~rec.ret /\ rec.failed[resp.ip] = <<t>>

\* A login succeeded with two failures in the ledger.
C5_Witness ==
    /\ resp.op = "login" /\ resp.outcome = "success"
    /\ Len(resp.ledger_before) = MAX_FAILED_ATTEMPTS - 1

\* C6, the state part: a login that finds a block entry whose expiry has
\* passed is decided by its credentials: the configured pair succeeds, any
\* other is the first failure of a new window.
C6_AfterExpiry ==
    (resp.op = "login" /\ resp.block_before # 0 /\ resp.at >= resp.block_before)
        => IF resp.ok
           THEN resp.outcome = "success" /\ resp.token \in DOMAIN active_sessions
           ELSE /\ resp.outcome = "invalid"
                /\ resp.remaining = MAX_FAILED_ATTEMPTS - 1
                /\ failed_login_attempts[resp.ip] = <<resp.at>>
                /\ resp.ip \notin DOMAIN blocked_ips

\* C6, the step part: no request moves the expiry of a block entry.
C6_ExpiryNeverMoves ==
    \A ip \in IPs :
        (ip \in DOMAIN blocked_ips /\ ip \in DOMAIN blocked_ips')
            => blocked_ips'[ip] = blocked_ips[ip]

\* C6: once BLOCK_DURATION has passed since the block was set the next login
\* is decided by its credentials, and nothing done meanwhile postpones that.
C6_EvaluatedOnMeritsAfterBlock ==
    [](C6_AfterExpiry) /\ [][C6_ExpiryNeverMoves]_vars

\* A wrong pair, submitted at the very second the block expired, was taken as a
\* first failure.
C6_Witness ==
    /\ WrongLogin(resp)
    /\ resp.block_before # 0 /\ resp.at = resp.block_before
    /\ resp.outcome = "invalid"

\* C7: the token a successful login has just set is accepted by
\* verify_session, and the token a logout has just been called with is not.
C7_VerifyAfterLoginAndLogout ==
    /\ (resp.op = "login" /\ resp.outcome = "success")
        => verify_session(active_sessions, resp.token)
    /\ resp.op = "logout" => ~verify_session(active_sessions, resp.cookie)

\* A logout was called with a token that was in the store.
C7_Witness ==
    /\ resp.op = "logout"
    /\ resp.had_session
    /\ resp.cookie \notin DOMAIN active_sessions

\* The stored timestamps of r's ledger that are inside the window at r.at.
KeptBefore(r) ==
    SelectSeq(r.ledger_before, LAMBDA t : r.at - t < ATTEMPT_WINDOW)

\* C8: a recorded failure leaves exactly the timestamps less than
\* ATTEMPT_WINDOW old followed by its own, and shows MAX_FAILED_ATTEMPTS minus
\* their number; failures at t = 0 and t = 61 give count 1 at t = 61; a block
\* is set only by a failure that has two earlier ones inside its window.
C8_WindowSlides ==
    /\ (WrongLogin(resp) /\ resp.outcome = "invalid")
        => /\ failed_login_attempts[resp.ip] = Append(KeptBefore(resp), resp.at)
           /\ resp.remaining = MAX_FAILED_ATTEMPTS - (Len(KeptBefore(resp)) + 1)
    /\ (WrongLogin(resp) /\ NotBlockedOnEntry(resp)
            /\ resp.ledger_before = <<0>> /\ resp.at = ATTEMPT_WINDOW + 1)
        => /\ resp.outcome = "invalid"
           /\ failed_login_attempts[resp.ip] = <<ATTEMPT_WINDOW + 1>>
    /\ (WrongLogin(resp) /\ NotBlockedOnEntry(resp) /\ resp.outcome = "blocked")
        => Len(KeptBefore(resp)) >= MAX_FAILED_ATTEMPTS - 1

\* A failure at t = 61 after one at t = 0.
C8_Witness ==
    /\ WrongLogin(resp) /\ NotBlockedOnEntry(resp)
    /\ resp.ledger_before = <<0>>
    /\ resp.at = ATTEMPT_WINDOW + 1
    /\ resp.outcome = "invalid"

\* C9: when extend_video has answered with success, the uuid it was called
\* with is no key of the cache and the uuid it returned maps to the video the
\* service generated for it; and whenever the event loop is free to run
\* another request, no extend_video coroutine stands between storing the new
\* entry and removing the old one.
C9_ExtendReplacesEntry ==
    /\ (resp.op = "extend_video" /\ resp.outcome = "success")
        => /\ resp.video_uuid \notin DOMAIN video_objects_cache
           /\ resp.new_uuid \in DOMAIN video_objects_cache
           /\ video_objects_cache[resp.new_uuid] = resp.video
           /\ resp.new_uuid # resp.video_uuid
    /\ loop = 0 => \A h \in Handlers : handlers[h].pc # "stored"

\* An extension has succeeded.
C9_Witness ==
    /\ resp.op = "extend_video" /\ resp.outcome = "success"
    /\ resp.video_uuid \in 1..uuids_minted
    /\ resp.new_uuid \in DOMAIN video_objects_cache

\* C10: an extend-video request for a uuid that is no key of the cache is
\* answered with the "video not found" error under a status other than the
\* 500 of the other faults, and leaves the cache as it was.
C10_NotFoundIsDistinct ==
    [][\A h \in Handlers, video_uuid \in VideoUuids, raises \in BOOLEAN :
          (video_uuid \notin DOMAIN video_objects_cache
              /\ ExtendVideoBegin(h, video_uuid, raises))
              => /\ resp'.outcome = "video not found"
                 /\ resp'.status # 500
                 /\ video_objects_cache' = video_objects_cache]_vars

\* C11, the step part: a step that takes a token out of the session store is
\* a logout called with that token; failed logins, blocks, other logins, page
\* requests and the passing of time take none out.
C11_OnlyLogoutRemoves ==
    \A tok \in DOMAIN active_sessions :
        tok \notin DOMAIN active_sessions'
            => resp'.op = "logout" /\ resp'.cookie = tok

\* C11, the state part: every token of the store is accepted by
\* verify_session however old it is, and a request that carried a stored
\* token was served as authenticated, also more than 24 hours after the login.
C11_AcceptedAtAnyAge ==
    /\ \A tok \in DOMAIN active_sessions :
           /\ verify_session(active_sessions, tok)
           /\ active_sessions[tok].created_at <= now
    /\ (resp.op = "root" /\ resp.had_session) => resp.outcome = "index"
    /\ (resp.op = "login_page" /\ resp.had_session)
           => resp.outcome = "redirect_root"

\* C11: a token issued by a successful login is accepted at every later time
\* until logout is called with it; nothing else removes it.
C11_SessionLastsUntilLogout ==
    [](C11_AcceptedAtAnyAge) /\ [][C11_OnlyLogoutRemoves]_vars

\* GET / was served to a token issued more than 24 hours before, after the
\* address had been blocked meanwhile.
C11_Witness ==
    /\ resp.op = "root" /\ resp.had_session /\ resp.outcome = "index"
    /\ resp.cookie \in DOMAIN active_sessions
    /\ resp.at - active_sessions[resp.cookie].created_at > max_age
    /\ blocked_ips # EmptyDict

\* C12: a logout takes the token it was called with out of the session store
\* and leaves every other session, the failure ledger and the block list as
\* they were; called with an absent or unknown token it changes nothing; and
\* a second logout with the same token would leave the store as the first did.
C12_LogoutRemovesOnlyItsToken ==
    [][\A cookie \in Cookies :
          Logout(cookie)
              => /\ active_sessions' =
                        [t \in DOMAIN active_sessions \ {cookie}
                            |-> active_sessions[t]]
                 /\ UNCHANGED <<failed_login_attempts, blocked_ips,
                                tokens_minted, video_objects_cache>>
                 /\ (cookie = 0 \/ cookie \notin DOMAIN active_sessions)
                        => UNCHANGED active_sessions
                 /\ SessionsAfterLogout(active_sessions', cookie)
                        = active_sessions']_vars

\* A logout ended one session while another one and a failure ledger were
\* stored.
C12_Witness ==
    /\ resp.op = "logout" /\ resp.had_session
    /\ resp.cookie \notin DOMAIN active_sessions
    /\ active_sessions # EmptyDict
    /\ \E ip \in DOMAIN failed_login_attempts : failed_login_attempts[ip] # <<>>

\* C13: a wrong login from an address that is not blocked, being the count-th
\* failure of its window, is answered "blocked" when MAX_FAILED_ATTEMPTS - count
\* would be 0 or less, and otherwise "invalid" showing MAX_FAILED_ATTEMPTS - count
\* remaining attempts, which is 1 or 2.
C13_RemainingAttempts ==
    (WrongLogin(resp) /\ NotBlockedOnEntry(resp))
        => LET count == Len(KeptBefore(resp)) + 1
           IN  IF MAX_FAILED_ATTEMPTS - count <= 0
               THEN resp.outcome = "blocked" /\ resp.remaining = 0
               ELSE /\ resp.outcome = "invalid"
                    /\ resp.remaining = MAX_FAILED_ATTEMPTS - count
                    /\ resp.remaining \in 1..(MAX_FAILED_ATTEMPTS - 1)

\* A failure was answered with one attempt remaining, one of the two stored
\* timestamps having left the window.
C13_Witness ==
    /\ WrongLogin(resp) /\ resp.outcome = "invalid"
    /\ resp.remaining = 1
    /\ Len(resp.ledger_before) = 2
    /\ Len(KeptBefore(resp)) = 1

\* C14: GET / answers with the application exactly when the session_token
\* cookie is a key of the session store; otherwise (absent, empty, unknown or
\* logged-out token) it answers with the redirect to /login.
C14_RootServedIffSession ==
    resp.op = "root"
        => /\ resp.outcome = "index" <=> resp.had_session
           /\ resp.outcome = "index" => resp.status = 200
           /\ ~resp.had_session
                  => resp.outcome = "redirect_login" /\ resp.status = 302

\* GET / was refused to a token that had been issued and then logged out.
C14_Witness ==
    /\ resp.op = "root"
    /\ resp.cookie \in 1..tokens_minted
    /\ ~resp.had_session
    /\ resp.outcome = "redirect_login"

\* The routes that generate or extend a video.
VideoOps == {"text_to_video", "extend_video"}

\* C15: while the session store is empty, so that no request can carry a
\* token present in it, a request to a video route is answered with a denial
\* (401) and no step changes the video object cache.
C15_GenerationNeedsSession ==
    [][active_sessions = EmptyDict
          => /\ UNCHANGED video_objects_cache
             /\ (resp' # resp /\ resp'.op \in VideoOps)
                    => resp'.status = 401]_vars

\* C16, the state part: whenever the event loop may take up another request
\* no login_submit coroutine stands between its block check and its answer,
\* and at most one does at any time; the wrong logins of one address answered
\* "invalid" inside one window since its last success or block are at most
\* MAX_FAILED_ATTEMPTS - 1; and an "invalid" answer shows 1 or 2 remaining
\* attempts and is given while the address has no block entry.
C16_LoginStepsAtomic ==
    /\ loop = 0 => \A h \in Handlers : logins[h].pc = "idle"
    /\ Cardinality({h \in Handlers : logins[h].pc # "idle"}) <= 1
    /\ \A ip \in DOMAIN invalid_log :
           Len(invalid_log[ip]) <= MAX_FAILED_ATTEMPTS - 1
    /\ (resp.op = "login" /\ resp.outcome = "invalid")
           => /\ resp.ip \notin DOMAIN blocked_ips
              /\ resp.remaining \in 1..(MAX_FAILED_ATTEMPTS - 1)
              /\ resp.remaining = MAX_FAILED_ATTEMPTS - Len(invalid_log[resp.ip])

\* C16, the step part: the step that records the failure which brings the
\* "invalid" answers of the window to MAX_FAILED_ATTEMPTS - 1 plus one is
\* the step that sets the block.
C16_ThirdFailureBlocks ==
    \A h \in Handlers :
        (LoginDecide(h) /\ ~logins[h].ok
            /\ Len(SelectSeq(DictGet(invalid_log, logins[h].client_ip, <<>>),
                              LAMBDA u : now - u < ATTEMPT_WINDOW))
                   = MAX_FAILED_ATTEMPTS - 1)
            => /\ resp'.outcome = "blocked"
               /\ logins[h].client_ip \in DOMAIN blocked_ips'

\* C16: the block check, the count and the block transition of one POST /login
\* are one step with respect to the other requests, so that of the wrong
\* logins of one address in one window at most two are answered "invalid"
\* before the block entry exists.
C16_LoginAtomic ==
    [](C16_LoginStepsAtomic) /\ [][C16_ThirdFailureBlocks]_vars

\* Three wrong logins arrived in the same second; two were answered
\* "invalid" and the third, which found both in the ledger, "blocked".
C16_Witness ==
    /\ WrongLogin(resp) /\ resp.outcome = "blocked"
    /\ resp.ledger_before = <<resp.at, resp.at>>
    /\ resp.ip \in DOMAIN blocked_ips
    /\ \A h \in Handlers : logins[h].pc = "idle"

\* e is the text of s before its first comma (all of s when it has none).
IsFirstEntry(e, s) ==
    \E n \in 0..Len(s) :
        /\ e = SubSeq(s, 1, n)
        /\ \A i \in 1..n : s[i] # ","
        /\ n = Len(s) \/ s[n + 1] = ","

\* r is e without the blanks at its two ends.
IsStripped(r, e) ==
    \E a \in 0..Len(e) :
        /\ a + Len(r) <= Len(e)
        /\ r = SubSeq(e, a + 1, a + Len(r))
        /\ \A i \in (1..a) \cup ((a + Len(r) + 1)..Len(e)) : e[i] = " "
        /\ r # <<>> => r[1] # " " /\ r[Len(r)] # " "

\* C17: the address taken from a request is the first comma-separated entry
\* of X-Forwarded-For without the blanks at its ends when that header is
\* present and not empty, else the X-Real-IP value as it is when that is
\* present and not empty, else the peer's host, or "unknown" without a peer;
\* it is determined by these three alone.
C17_IdentifierExtraction ==
    request # NoRequest \/ client_ip # <<>>
        => /\ IF request.forwarded.present /\ request.forwarded.value # <<>>
              THEN \E e \in Strings :
                       /\ IsFirstEntry(e, request.forwarded.value)
                       /\ IsStripped(client_ip, e)
              ELSE IF request.real_ip.present /\ request.real_ip.value # <<>>
              THEN client_ip = request.real_ip.value
              ELSE IF request.client.present
              THEN client_ip = request.client.value
              ELSE client_ip = Unknown
           /\ client_ip = get_client_ip(request)

\* X-Forwarded-For " 1," with the other two present gave "1".
C17_Witness ==
    /\ request.forwarded = Present(<<" ", "1", ",">>)
    /\ Truthy(request.real_ip) /\ request.client.present
    /\ client_ip = <<"1">>

\* The routes of the login gate.
AuthOps == {"root", "login_page", "login", "logout"}

\* C18: every answer of GET /, GET /login, POST /login and GET /logout is a
\* redirect (302) or a rendered page (200), whatever the token, the block
\* status and the credentials; a missing or unknown token, a wrong pair and a
\* blocked address in particular are answered so, never with 401 or 500.
C18_AuthFailuresAreRedirectsOrForms ==
    resp.op \in AuthOps
        => /\ resp.status \in {200, 302}
           /\ resp.status = 302
                  => resp.outcome \in {"redirect_login", "redirect_root",
                                       "blocked", "success"}
           /\ resp.status = 200
                  => resp.outcome \in {"index", "form", "banner", "invalid"}
           /\ (resp.op = "root" /\ ~resp.had_session) => resp.status = 302
           /\ (resp.op = "login" /\ BlockedOnEntry(resp)) => resp.status = 302
           /\ WrongLogin(resp) => resp.outcome \in {"invalid", "blocked"}

\* GET / was refused to a token never issued while the address was blocked.
C18_Witness ==
    /\ resp.op = "root"
    /\ resp.cookie # 0 /\ resp.cookie \notin 1..tokens_minted
    /\ resp.status = 302
    /\ \E ip \in IPs : Blocked(ip)

\* C19, the lookup: for the block list as stored and any time t, the lookup
\* says blocked exactly when an entry exists with expiry > t; it deletes the
\* entry when one exists with expiry <= t and otherwise leaves the list.
C19_Lookup ==
    \A ip \in IPs :
        \A t \in Instants \cup {blocked_ips[i] : i \in DOMAIN blocked_ips} :
            LET chk == is_ip_blocked(blocked_ips, ip, t)
            IN  /\ chk.ret <=> (ip \in DOMAIN blocked_ips /\ blocked_ips[ip] > t)
                /\ chk.blocked =
                       IF ip \in DOMAIN blocked_ips /\ blocked_ips[ip] <= t
                       THEN DictDel(blocked_ips, ip)
                       ELSE blocked_ips

\* C19, the steps: a step that takes an entry out of the block list is a GET
\* /login without session or a POST /login from that address at or after the
\* entry's expiry; a GET /login leaves ledger and sessions as they were, and
\* without a session it deletes an expired entry of its address.
C19_Steps ==
    /\ \A ip \in DOMAIN blocked_ips :
           ip \notin DOMAIN blocked_ips'
               => /\ resp'.op \in {"login", "login_page"}
                  /\ resp'.ip = ip
                  /\ resp'.at >= blocked_ips[ip]
                  /\ resp'.op = "login_page" => ~resp'.had_session
    /\ \A ip \in IPs, cookie \in Cookies :
           (resp'.op = "login_page" /\ LoginPage(ip, cookie))
               => /\ UNCHANGED <<failed_login_attempts, active_sessions,
                                 tokens_minted>>
                  /\ (~verify_session(active_sessions, cookie)
                         /\ ip \in DOMAIN blocked_ips /\ blocked_ips[ip] <= now)
                        => /\ ip \notin DOMAIN blocked_ips'
                           /\ resp'.outcome = "form"

\* C19: the lookup is strict in the expiry, deletes an expired entry, is the
\* only thing that removes one, and changes nothing else.
C19_LazyDeletion ==
    [](C19_Lookup) /\ [][C19_Steps]_vars

\* A GET /login at the very second of the expiry found the entry, deleted it
\* and showed the form without the banner.
C19_Witness ==
    /\ resp.op = "login_page"
    /\ resp.block_before # 0 /\ resp.at = resp.block_before
    /\ resp.outcome = "form"
    /\ resp.ip \notin DOMAIN blocked_ips
    /\ resp.ip \in DOMAIN failed_login_attempts

\* C20: the list whose length record_failed_attempt compares with the
\* threshold, and the list whose length POST /login subtracts to show the
\* remaining attempts, hold only timestamps less than ATTEMPT_WINDOW older
\* than the time of the request.
C20_CountedEntriesAreFresh ==
    [][\A ip \in IPs, id \in LoginIds, pw \in LoginPasswords :
          (~CredentialsOk(id, pw) /\ ~Blocked(ip) /\ resp'.op = "login"
              /\ LoginSubmit(ip, id, pw))
              => LET rec == record_failed_attempt(
                                failed_login_attempts,
                                is_ip_blocked(blocked_ips, ip, now).blocked,
                                ip, now)
                 IN  /\ \A i \in 1..Len(rec.counted) :
                            now - rec.counted[i] < ATTEMPT_WINDOW
                     /\ rec.counted[Len(rec.counted)] = now
                     /\ resp'.outcome = "invalid"
                            => /\ resp'.remaining =
                                      MAX_FAILED_ATTEMPTS
                                          - Len(failed_login_attempts'[ip])
                               /\ \A i \in 1..Len(failed_login_attempts'[ip]) :
                                      now - failed_login_attempts'[ip][i]
                                          < ATTEMPT_WINDOW]_vars

\* A failure found two timestamps stored, both out of the window, and was
\* counted as the first.
C20_Witness ==
    /\ WrongLogin(resp) /\ resp.outcome = "invalid"
    /\ Len(resp.ledger_before) = 2
    /\ Len(KeptBefore(resp)) = 0
    /\ failed_login_attempts[resp.ip] = <<resp.at>>

\* C21: while a video request is in its polling loop, a POST /login, a GET /
\* and a GET /logout can each be handled.
C21_PollingLeavesCoreFree ==
    (\E h \in Handlers : handlers[h].pc = "poll")
        => /\ ENABLED (\E ip \in IPs : LoginSubmit(ip, "guest", "hunter2"))
           /\ ENABLED (\E cookie \in Cookies : ReadRoot(cookie))
           /\ ENABLED (\E cookie \in Cookies : Logout(cookie))

\* C22, the state part: no two extend_video requests for the same uuid are
\* under way together.
C22_OneExtensionUnderWay ==
    \A h1, h2 \in Handlers :
        (h1 # h2 /\ handlers[h1].route = "extend_video"
            /\ handlers[h2].route = "extend_video")
            => handlers[h1].video_uuid # handlers[h2].video_uuid

\* C22, the step part: an extension that succeeds finds its predecessor in
\* the cache and takes it out, and a uuid once taken out never comes back.
C22_ConsumedForGood ==
    /\ \A h \in Handlers :
           (handlers[h].pc = "stored" /\ ExtendVideoReturn(h))
               => /\ handlers[h].video_uuid \in DOMAIN video_objects_cache
                  /\ handlers[h].video_uuid \notin DOMAIN video_objects_cache'
                  /\ resp'.new_uuid \in DOMAIN video_objects_cache'
                  /\ resp'.new_uuid # handlers[h].video_uuid
    /\ \A u \in 1..uuids_minted :
           u \notin DOMAIN video_objects_cache
               => u \notin DOMAIN video_objects_cache'

\* C22: of all the extend-video requests for one uuid, in sequence or handled
\* together, at most one succeeds.
C22_SingleUse ==
    [](C22_OneExtensionUnderWay) /\ [][C22_ConsumedForGood]_vars

\* A uuid already extended was asked for again and not found, its successor
\* being in the cache.
C22_Witness ==
    /\ resp.op = "extend_video" /\ resp.outcome = "video not found"
    /\ resp.video_uuid \in 1..uuids_minted
    /\ resp.video_uuid \notin DOMAIN video_objects_cache
    /\ video_objects_cache # EmptyDict

\* C23, the state part: while an extend_video request is under way and has
\* not stored its result, its predecessor is in the cache with the payload
\* the request read.
C23_PredecessorKept ==
    \A h \in Handlers :
        (handlers[h].route = "extend_video" /\ handlers[h].pc = "poll")
            => /\ handlers[h].video_uuid \in DOMAIN video_objects_cache
               /\ video_objects_cache[handlers[h].video_uuid]
                      = handlers[h].previous_video

\* C23, the step part: a step that ends an extend_video request with an
\* error, and every step taken while the request is under way without
\* reaching the store, leaves the cache as it was and issues no uuid.
C23_FailureChangesNothing ==
    /\ (resp' # resp /\ resp'.op = "extend_video" /\ resp'.outcome # "success")
           => UNCHANGED <<video_objects_cache, uuids_minted>>
    /\ \A h \in Handlers :
           (handlers[h].route = "extend_video" /\ handlers[h].pc = "poll"
               /\ handlers'[h].pc \in {"poll", "idle"})
               => UNCHANGED <<video_objects_cache, uuids_minted>>

\* C23: an extend-video request that fails leaves the cache exactly as it was
\* before the request.
C23_ConsumedOnlyOnSuccess ==
    [](C23_PredecessorKept) /\ [][C23_FailureChangesNothing]_vars

\* An extension failed at the download and its predecessor is in the cache.
C23_Witness ==
    /\ resp.op = "extend_video" /\ resp.outcome = "download raised"
    /\ resp.video_uuid \in DOMAIN video_objects_cache

\* The routes that generate an image in a chat session.
ImageOps == {"text_to_image", "image_to_image"}

\* C24: a step that ends a text-to-image or image-to-image request with an
\* error answer leaves the chat-session store as it was and issues no
\* session id.
C24_ErrorLeavesChatStore ==
    [][(resp'.op \in ImageOps /\ resp'.status # 200)
          => UNCHANGED <<image_chat_sessions, session_ids_minted>>]_vars

\* C25: a text-to-image or image-to-image request with is_new false and a
\* session id that is no key of the store is answered "session not found" and
\* leaves the store as it was; one whose session id is a key leaves the store
\* as it was and, when it succeeds, answers with that same id.
C25_ContinuationNeedsItsSession ==
    [][\A session_id \in SessionIds \ {0}, response \in ImageResponses,
         create_raises \in BOOLEAN :
          (resp'.op \in ImageOps
              /\ \/ TextToImage(FALSE, session_id, response, create_raises)
                 \/ \E h \in Handlers, files \in BOOLEAN :
                        ImageToImageBegin(h, FALSE, session_id, files, response))
              => /\ UNCHANGED <<image_chat_sessions, session_ids_minted>>
                 /\ IF session_id \in DOMAIN image_chat_sessions
                    THEN resp'.status = 200 => resp'.new_uuid = session_id
                    ELSE resp'.outcome = "session not found"]_vars

\* Every key of the store is a token that has been minted.
C26_TokensWereMinted == DOMAIN active_sessions \subseteq 1..tokens_minted

\* A step that puts a session in the store is a POST /login with exactly
\* LOGIN_ID and LOGIN_PASSWORD from an address that is not blocked; it puts
\* one session in, under a token that was no key of the store, for that
\* address, and sets that token as the cookie.
C26_OnlyGoodLoginsMint ==
    /\ \A t \in DOMAIN active_sessions' \ DOMAIN active_sessions :
           /\ resp'.op = "login" /\ resp'.outcome = "success"
           /\ resp'.token = t
           /\ t \notin DOMAIN active_sessions
           /\ DOMAIN active_sessions' = DOMAIN active_sessions \cup {t}
           /\ active_sessions'[t] = [ip |-> resp'.ip, created_at |-> now]
    /\ \A t \in DOMAIN active_sessions \cap DOMAIN active_sessions' :
           active_sessions'[t] = active_sessions[t]
    /\ \A ip \in IPs, id \in LoginIds, pw \in LoginPasswords :
           (resp'.op = "login"
               /\ DOMAIN active_sessions' # DOMAIN active_sessions
               /\ LoginSubmit(ip, id, pw))
               => id = LOGIN_ID /\ pw = LOGIN_PASSWORD /\ ~Blocked(ip)

\* C26: every token in the session store was minted by a POST /login that
\* presented exactly LOGIN_ID and LOGIN_PASSWORD from an address not blocked
\* at that moment, under a token distinct from every token already stored; no
\* other request puts a session in the store.
C26_SessionsComeFromGoodLogins ==
    [](C26_TokensWereMinted) /\ [][C26_OnlyGoodLoginsMint]_vars

\* A second session was minted for an address that had failures on record,
\* while the first was still in the store.
C26_Witness ==
    /\ resp.op = "login" /\ resp.outcome = "success"
    /\ resp.token = 2 /\ resp.ledger_before # <<>>
    /\ DOMAIN active_sessions = {1, 2}

\* A request whose cookie is a key of the store is taken as logged in, by
\* GET /login and by GET /, whatever address it comes from and whatever the
\* block list holds.
C27_AcceptedWhoeverAsks ==
    /\ (resp.op = "login_page" /\ resp.had_session)
           => resp.outcome = "redirect_root"
    /\ (resp.op = "root" /\ resp.had_session) => resp.outcome = "index"

\* A step that changes the block list keeps every session of the store.
C27_BlockingKeepsSessions ==
    blocked_ips' # blocked_ips
        => \A t \in DOMAIN active_sessions :
               /\ t \in DOMAIN active_sessions'
               /\ active_sessions'[t] = active_sessions[t]

\* C27: a token issued to one address is accepted when presented from any
\* other, and stays accepted while either address is blocked; blocking an
\* address removes no session.
C27_SessionsIgnoreAddressAndBlocks ==
    [](C27_AcceptedWhoeverAsks) /\ [][C27_BlockingKeepsSessions]_vars

\* GET /login came from a blocked address with the token of a session that
\* was issued to another address, itself blocked, and was redirected to /.
C27_Witness ==
    /\ resp.op = "login_page" /\ resp.outcome = "redirect_root"
    /\ resp.cookie \in DOMAIN active_sessions
    /\ active_sessions[resp.cookie].ip # resp.ip
    /\ Blocked(active_sessions[resp.cookie].ip)
    /\ BlockedOnEntry(resp)

\* The ledger and the block entry of address b are the same after the step.
C28_Untouched(b) ==
    /\ (b \in DOMAIN failed_login_attempts')
           = (b \in DOMAIN failed_login_attempts)
    /\ DictGet(failed_login_attempts', b, <<>>)
           = DictGet(failed_login_attempts, b, <<>>)
    /\ (b \in DOMAIN blocked_ips') = (b \in DOMAIN blocked_ips)
    /\ DictGet(blocked_ips', b, 0) = DictGet(blocked_ips, b, 0)

\* A POST /login or a GET /login from one address leaves the ledger and the
\* block entry of every other address as they were.
C28_OthersUntouched ==
    \A a \in TwoIPs :
        (\/ /\ resp'.op = "login"
            /\ \E id \in LoginIds, pw \in LoginPasswords : LoginSubmit(a, id, pw)
         \/ /\ resp'.op = "login_page"
            /\ \E cookie \in Cookies : LoginPage(a, cookie))
            => \A b \in TwoIPs \ {a} : C28_Untouched(b)

\* The outcome of a POST /login follows from the pair submitted, the time,
\* and the ledger and block entry stored for the address it came from.
C28_OutcomeFromOwnState ==
    resp.op = "login"
        => resp.outcome =
               IF BlockedOnEntry(resp) THEN "blocked"
               ELSE IF resp.ok THEN "success"
               ELSE IF Len(KeptBefore(resp)) + 1 >= MAX_FAILED_ATTEMPTS
                    THEN "blocked"
                    ELSE "invalid"

\* C28: login attempts (failed, blocked or successful) and login-page views
\* from one address leave the failure ledger and the block entry of every
\* other address unchanged, and the outcome of a login depends on the
\* throttling state of its own address only.
C28_ThrottlingIsPerAddress ==
    [](C28_OutcomeFromOwnState) /\ [][C28_OthersUntouched]_vars

\* One address logged in and had its ledger dropped, while the other
\* address has two failures on record.
C28_Witness ==
    /\ resp.op = "login" /\ resp.outcome = "success"
    /\ resp.ledger_before # <<>>
    /\ resp.ip \notin DOMAIN failed_login_attempts
    /\ \E b \in TwoIPs \ {resp.ip} :
           Len(DictGet(failed_login_attempts, b, <<>>)) = 2

\* C29: between requests no address has both a block entry and a non-empty
\* failure ledger.
C29_BlockedMeansEmptyLedger ==
    \A ip \in DOMAIN blocked_ips :
        DictGet(failed_login_attempts, ip, <<>>) = <<>>

\* A step that leaves a failure in the ledger of an address leaves that
\* address without a block entry: the lookup found none, or found an expired
\* one and deleted it.
C29_RecordedOnlyUnblocked ==
    \A ip \in IPs :
        (/\ DictGet(failed_login_attempts', ip, <<>>) # <<>>
         /\ DictGet(failed_login_attempts', ip, <<>>)
                # DictGet(failed_login_attempts, ip, <<>>))
            => /\ ip \notin DOMAIN blocked_ips'
               /\ ~Blocked(ip)

\* C29 as a whole: the invariant, and the way it is kept.
C29_BlockAndLedgerExclusive ==
    [](C29_BlockedMeansEmptyLedger) /\ [][C29_RecordedOnlyUnblocked]_vars

\* A failure came after the block of its address had expired: the expired
\* entry was deleted and the failure recorded.
C29_Witness ==
    /\ WrongLogin(resp) /\ resp.outcome = "invalid"
    /\ resp.block_before # 0 /\ resp.at >= resp.block_before
    /\ resp.ip \notin DOMAIN blocked_ips
    /\ failed_login_attempts[resp.ip] = <<resp.at>>

\* Every ledger holds at most MAX_FAILED_ATTEMPTS - 1 timestamps.
C30_LedgerBelowThreshold ==
    \A ip \in DOMAIN failed_login_attempts :
        Len(failed_login_attempts[ip]) <= MAX_FAILED_ATTEMPTS - 1

\* A failure counted as the MAX_FAILED_ATTEMPTS-th sets the block entry and
\* empties the ledger in the same step.
C30_ThresholdBecomesBlock ==
    \A ip \in IPs, id \in LoginIds, pw \in LoginPasswords :
        (/\ ~CredentialsOk(id, pw) /\ ~Blocked(ip) /\ resp'.op = "login"
         /\ Len(SelectSeq(DictGet(failed_login_attempts, ip, <<>>),
                          LAMBDA t : now - t < ATTEMPT_WINDOW))
                >= MAX_FAILED_ATTEMPTS - 1
         /\ LoginSubmit(ip, id, pw))
            => /\ failed_login_attempts'[ip] = <<>>
               /\ ip \in DOMAIN blocked_ips'
               /\ blocked_ips'[ip] = now + BLOCK_DURATION

\* C30: between requests every address's failure ledger holds at most
\* MAX_FAILED_ATTEMPTS - 1 = 2 timestamps; a ledger that reaches the threshold
\* is turned into a block entry and emptied in the same step.
C30_LedgerNeverReachesThreshold ==
    [](C30_LedgerBelowThreshold) /\ [][C30_ThresholdBecomesBlock]_vars

\* A ledger at its largest, two failures, was turned into a block by a third
\* failure and emptied.
C30_Witness ==
    /\ WrongLogin(resp) /\ resp.outcome = "blocked"
    /\ Len(resp.ledger_before) = MAX_FAILED_ATTEMPTS - 1
    /\ ~BlockedOnEntry(resp)
    /\ failed_login_attempts[resp.ip] = <<>>
    /\ resp.ip \in DOMAIN blocked_ips
====
